---- MODULE Spec2Model ----
(***************************************************************************)
(* Model of src/src/app.py: the Dash callback update_selected_data, which  *)
(* recomputes the children of the 'selected-figure' Div from the five      *)
(* component properties it listens to and the three data frames loaded at  *)
(* import time.                                                            *)
(*                                                                         *)
(* Strings are TLA+ strings (TLC evaluates Len, \o and SubSeq on them), so *)
(* an f-string is a concatenation and a slice is a SubSeq.  A pandas data  *)
(* frame is a record [columns, rows]: the column labels in order and the   *)
(* rows as functions from the labels to cell values; a missing cell is     *)
(* the value NaN.  A Python exception is a result record whose err field   *)
(* names the exception.                                                    *)
(***************************************************************************)
EXTENDS Integers, Sequences, FiniteSets, TLC

VARIABLES
    selected_countries,  \* 'country-dropdown'.value: [kind, val], kind "str" or "list"
    selected_figure,     \* 'figure-dropdown'.value: "fig1", "fig2", "fig3" or None
    show_table,          \* 'table-switch'.on
    show_legend,         \* 'legend-switch'.on
    is_mobile,           \* 'is-mobile-store'.data
    workbook,            \* the content of inflation_inequality.xlsx the process loaded
    children,            \* what the last call returned for 'selected-figure'.children; <<>> if it raised
    callback_error       \* "none", or the exception the last call of the callback raised

vars == <<selected_countries, selected_figure, show_table, show_legend,
          is_mobile, workbook, children, callback_error>>

(***************************************************************************)
(* Bounds of the model.                                                    *)
(***************************************************************************)
\* Rows each country has in each data frame.
RowsPerCountry == 2
\* Longest selection built by adding countries in any order.
MaxFree == 2

(***************************************************************************)
(* Module-level values of app.py.                                          *)
(***************************************************************************)
None == "None"
NaN == "NaN"
NoError == "none"

\* The keys of country_dict, in the order the dict literal lists them.
country_codes ==
    <<"AT", "BE", "BG", "CY", "CZ", "DE", "DK", "EE", "EL", "ES", "FI", "FR",
      "HR", "HU", "IE", "IT", "LT", "LU", "LV", "MT", "NL", "PL", "PT", "RO",
      "SE", "SI", "SK">>

country_names ==
    <<"Austria", "Belgium", "Bulgaria", "Cyprus", "Czechia", "Germany",
      "Denmark", "Estonia ", "Greece", "Spain", "Finland", "France", "Croatia",
      "Hungary", "Ireland", "Italy", "Lithuania", "Luxembourg", "Latvia",
      "Malta", "Netherlands", "Poland", "Portugal", "Romania", "Sweden",
      "Slovenia", "Slovakia">>

\* F at v, with v evaluated once and named in F: Python evaluates an
\* expression when it assigns it, not each time the name is read.  (A TLA+
\* idiom, not a part of app.py.)
With(v, F(_)) == CHOOSE out \in {F(x) : x \in {v}} : TRUE

Range(s) == With(s, LAMBDA q : {q[k] : k \in 1..Len(q)})

Countries == Range(country_codes)

country_dict == [c \in Countries |->
    country_names[CHOOSE k \in 1..Len(country_codes) : country_codes[k] = c]]

Figures == {"fig1", "fig2", "fig3"}

\* figure_descriptions: the notes are long texts; each is kept by its opening words.
figure_descriptions == [f \in Figures |->
    CASE f = "fig1" -> "Source: Bruegel based on Eurostat and national statistical institutes. Note: Figure 1 displays multiple measures of year-on-year (yoy) inflation since January 2019."
      [] f = "fig2" -> "Source: Bruegel based on Eurostat and national statistical institutes. Note: Figure 2 shows 'inflation inequality', the black line"
      [] f = "fig3" -> "Source: Bruegel based on Eurostat and national statistical institutes. Note: Figure 3 shows the two factors necessary for a consumption category to affect inflation inequality"]

font_family == "Arial, sans-serif"

(***************************************************************************)
(* Python built-ins the callback uses.                                     *)
(***************************************************************************)
\* The printable ASCII characters from code point 97 on.
AsciiFrom97 == "abcdefghijklmnopqrstuvwxyz{|}~"

\* chr(n), for the code points the callback can ask for.
chr(n) == SubSeq(AsciiFrom97, n - 96, n - 96)

\* s[:k] and s[k:] of a Python string.
SliceTo(s, k) == SubSeq(s, 1, IF k < Len(s) THEN k ELSE Len(s))
SliceFrom(s, k) == SubSeq(s, k + 1, Len(s))

(***************************************************************************)
(* pandas: the data frame operations the callback uses.  A result is       *)
(* [err, val]; err is NoError or the name of the exception raised.         *)
(***************************************************************************)
Ok(v) == [err |-> NoError, val |-> v]
Raise(e) == [err |-> e, val |-> None]

ColumnSet(df) == Range(df.columns)

\* The frame restricted to the columns whose label is in kept, in their order.
KeepColumns(df, kept) ==
    With(df, LAMBDA f :
    With(kept, LAMBDA labels :
        [columns |-> SelectSeq(f.columns, LAMBDA c : c \in labels),
         rows |-> [k \in 1..Len(f.rows) |-> [c \in labels |-> f.rows[k][c]]]]))

\* df.loc[df['Country'] == country]
LocCountry(df, country) ==
    With(df, LAMBDA f :
        [columns |-> f.columns,
         rows |-> SelectSeq(f.rows, LAMBDA r : r["Country"] = country)])

\* df.drop(columns=labels): KeyError when a label is not a column.
DropColumns(df, labels) ==
    With(df, LAMBDA f :
        IF labels \subseteq ColumnSet(f)
        THEN Ok(KeepColumns(f, ColumnSet(f) \ labels))
        ELSE Raise("KeyError"))

\* df.dropna(axis=1): how='any' is the default, so a column goes as soon as
\* one of its cells is missing; a frame without rows keeps all its columns.
DropNaColumns(df) ==
    With(df, LAMBDA f :
        KeepColumns(f, {c \in ColumnSet(f) :
                            \A k \in 1..Len(f.rows) : f.rows[k][c] # NaN}))

\* df[[labels]] and df[label]: KeyError when a label is not a column.
HasColumns(df, labels) == Range(labels) \subseteq ColumnSet(df)

\* The cells of one column, top to bottom.
Column(df, label) ==
    With(df, LAMBDA f : [k \in 1..Len(f.rows) |-> f.rows[k][label]])

\* The distinct values of a sequence, in order of first appearance: the
\* groups plotly express makes of the column given as color.
RECURSIVE Unique(_)
Unique(s) ==
    With(s, LAMBDA q :
        IF Len(q) = 0 THEN <<>>
        ELSE With(Unique(SubSeq(q, 1, Len(q) - 1)), LAMBDA rest :
                IF q[Len(q)] \in Range(rest) THEN rest
                ELSE Append(rest, q[Len(q)])))

(***************************************************************************)
(* The workbook inflation_inequality.xlsx is not part of the sources; the  *)
(* sheets below have the columns the callback names, RowsPerCountry rows   *)
(* per country, and the quantile columns filled for the grouping each      *)
(* country uses.  A defect makes one country's rows differ: no rows at     *)
(* all, one missing cell, or the values filed under the other grouping.    *)
(***************************************************************************)
Dates == <<"2019-01", "2019-02", "2019-03", "2019-04", "2019-05">>
Rates == <<"1.10", "2.20", "3.30", "4.40", "5.50">>
Categories == <<"Food", "Housing">>
Coicops == <<"CP01", "CP04", "CP07", "CP09", "CP11">>

DefectKinds == {"no_rows", "partial_nan", "label_mismatch"}
DefectCountries == {"AT", "BE"}
NoDefect == [kind |-> "none", country |-> None]
Defects == {NoDefect} \cup [kind : DefectKinds, country : DefectCountries]

Hit(d, kind, c) == d.kind = kind /\ d.country = c

\* The grouping whose columns hold the country's values in the workbook.
Filed(d, c) ==
    LET own == IF c = "BE" THEN "quartile" ELSE "quintile"
        other == IF c = "BE" THEN "quintile" ELSE "quartile"
    IN  IF Hit(d, "label_mismatch", c) THEN other ELSE own

Fig1Columns == <<"Country", "Date", "Top quintile", "Bottom quintile",
                 "Top quartile", "Bottom quartile", "Total", "HICP">>

Fig1Row(d, c, k) == [col \in Range(Fig1Columns) |->
    CASE col = "Country" -> c
      [] col = "Date" -> Dates[k]
      [] col \in {"Top quintile", "Bottom quintile"} ->
            IF Filed(d, c) = "quintile" THEN Rates[k] ELSE NaN
      [] col \in {"Top quartile", "Bottom quartile"} ->
            IF Filed(d, c) = "quartile" THEN Rates[k] ELSE NaN
      [] col = "Total" -> Rates[k]
      [] col = "HICP" -> IF Hit(d, "partial_nan", c) /\ k = 1 THEN NaN ELSE Rates[k]]

Fig2Columns == <<"Country", "Date", "Consumption category",
                 "Effect on inflation inequality",
                 "Difference between inflation rates of bottom and top quantiles">>

Fig2Row(d, c, k) == [col \in Range(Fig2Columns) |->
    CASE col = "Country" -> c
      [] col = "Date" -> Dates[1]
      [] col = "Consumption category" -> Categories[((k - 1) % Len(Categories)) + 1]
      [] col = "Effect on inflation inequality" ->
            IF Hit(d, "partial_nan", c) /\ k = 1 THEN NaN ELSE Rates[k]
      [] OTHER -> IF Hit(d, "label_mismatch", c) THEN NaN ELSE Rates[1]]

Fig3Columns == <<"Country", "COICOP", "Main category",
                 "Difference in share of total expenditure",
                 "Average inflation in 2019", "Average inflation in 2020",
                 "Average inflation in 2021", "Average inflation in 2022",
                 "Average inflation in 2023">>

Fig3Row(d, c, k) == [col \in Range(Fig3Columns) |->
    CASE col = "Country" -> c
      [] col = "COICOP" -> Coicops[k]
      [] col = "Main category" -> Categories[((k - 1) % Len(Categories)) + 1]
      [] col = "Average inflation in 2019" ->
            IF Hit(d, "partial_nan", c) /\ k = 1 THEN NaN ELSE Rates[k]
      [] col = "Average inflation in 2023" ->
            IF Hit(d, "label_mismatch", c) THEN NaN ELSE Rates[k]
      [] OTHER -> Rates[k]]

SheetRow(figure, d, c, k) ==
    CASE figure = "fig1" -> Fig1Row(d, c, k)
      [] figure = "fig2" -> Fig2Row(d, c, k)
      [] figure = "fig3" -> Fig3Row(d, c, k)

\* One sheet: the rows of the first n countries one after the other.
RECURSIVE SheetRows(_, _, _)
SheetRows(figure, d, n) ==
    IF n = 0 THEN <<>>
    ELSE LET c == country_codes[n]
         IN  SheetRows(figure, d, n - 1) \o
             (IF Hit(d, "no_rows", c) THEN <<>>
              ELSE [k \in 1..RowsPerCountry |-> SheetRow(figure, d, c, k)])

\* pd.read_excel of the three sheets.
LoadData(d) ==
    [fig1 |-> [columns |-> Fig1Columns,
               rows |-> SheetRows("fig1", d, Len(country_codes))],
     fig2 |-> [columns |-> Fig2Columns,
               rows |-> SheetRows("fig2", d, Len(country_codes))],
     fig3 |-> [columns |-> Fig3Columns,
               rows |-> SheetRows("fig3", d, Len(country_codes))]]

\* The frames of each workbook, read once.
Workbooks == {<<d, LoadData(d)>> : d \in Defects}

\* dfs: filled when the module is imported, never written again.
dfs == (CHOOSE loaded \in Workbooks : loaded[1] = workbook)[2]

(***************************************************************************)
(* plotly: a figure is [data, xaxis, yaxis, layout]; a property the code   *)
(* never sets is Unset (plotly then uses its default: a vertical legend,   *)
(* automatic ticks).                                                       *)
(***************************************************************************)
Unset == "unset"
opacity == "0.9"

Trace(type, mode, name, x, y, line, hovertemplate) ==
    [type |-> type, mode |-> mode, name |-> name, x |-> x, y |-> y,
     line |-> line, opacity |-> opacity, hovertemplate |-> hovertemplate]

Line(color, width, dash) == [color |-> color, width |-> width, dash |-> dash]

Axis(title_text, dtick, tickformat, zeroline) ==
    [title_text |-> title_text, dtick |-> dtick, tickformat |-> tickformat,
     zeroline |-> zeroline, automargin |-> TRUE]

ZeroLine == [on |-> "True", width |-> "1", color |-> "grey"]
NoZeroLine == [on |-> Unset, width |-> Unset, color |-> Unset]

\* What a plotly express figure starts with.
PxLayout ==
    [template |-> "plotly_white", dragmode |-> Unset, font_family |-> Unset,
     font_color |-> Unset,
     margin |-> [t |-> "60", b |-> Unset, l |-> Unset, r |-> Unset],
     legend |-> [itemsizing |-> Unset, orientation |-> Unset, yanchor |-> Unset,
                 y |-> Unset, xanchor |-> Unset, x |-> Unset],
     legend_title_text |-> Unset, showlegend |-> Unset]

\* The rows of df whose cell in column label is v.
Group(df, label, v) ==
    With(df, LAMBDA f :
        [columns |-> f.columns,
         rows |-> SelectSeq(f.rows, LAMBDA r : r[label] = v)])

\* px.line / px.bar / px.scatter with color=label: one trace per distinct value
\* of the color column, in order of first appearance; none for an empty frame.
PxTraces(df, type, mode, x, y, label) ==
    With(df, LAMBDA f :
    With(Unique(Column(f, label)), LAMBDA groups :
        [g \in 1..Len(groups) |->
            With(Group(f, label, groups[g]), LAMBDA rows :
                Trace(type, mode, groups[g], Column(rows, x), Column(rows, y),
                      Line(Unset, Unset, Unset), Unset))]))

\* fig.update_traces(hovertemplate=..., line=dict(width=...)) on every trace.
UpdateTraces(traces, hovertemplate, width) ==
    With(traces, LAMBDA ts :
        [g \in 1..Len(ts) |->
            [ts[g] EXCEPT !.hovertemplate = hovertemplate, !.line.width = width]])

\* df[['Date', label]].melt(id_vars='Date'): the frame stacked into rows of
\* Date, variable (the column's label) and value.
Melt(df, labels) ==
    With(df, LAMBDA f :
        [columns |-> <<"Date", "variable", "value">>,
         rows |-> [n \in 1..(Len(labels) * Len(f.rows)) |->
            LET l == ((n - 1) \div Len(f.rows)) + 1
                k == ((n - 1) % Len(f.rows)) + 1
            IN  [Date |-> f.rows[k]["Date"], variable |-> labels[l],
                 value |-> f.rows[k][labels[l]]]]])

(***************************************************************************)
(* The body of the loop of update_selected_data, piece by piece.           *)
(***************************************************************************)
\* The part every country's slice goes through: the country's rows, without
\* the Country column, without the columns dropna removes.
GenericSlice(df, selected_country) ==
    With(LocCountry(df, selected_country), LAMBDA rows :
    With(KeepColumns(rows, ColumnSet(rows) \ {"Country"}), LAMBDA noCountry :
        DropNaColumns(noCountry)))

Fig3Dropped == {"COICOP", "Average inflation in 2019", "Average inflation in 2020",
                "Average inflation in 2021", "Average inflation in 2022"}

\* Fig3Drop with the list cut to the category identifier.
Fig3DropOnlyCoicop(selected_data) == DropColumns(selected_data, {"COICOP"})

\* What the fig3 branch drops from the slice.
Fig3Drop(selected_data) == DropColumns(selected_data, Fig3Dropped)

\* selected_data: dfs[selected_figure] raises KeyError for a figure that is no
\* key of dfs, and the fig3 drop raises it for a label that is no column.
SelectedData(data, figure, selected_country) ==
    IF figure \notin DOMAIN data THEN Raise("KeyError")
    ELSE With(GenericSlice(data[figure], selected_country), LAMBDA slice :
            IF figure = "fig3" THEN Fig3Drop(slice) ELSE Ok(slice))

\* Quantile without the special case.
QuantileAlwaysQuintile(selected_country) == "quintile"

\* quantile
Quantile(selected_country) ==
    IF selected_country = "BE" THEN "quartile" ELSE "quintile"

NoneValue == [type |-> "NoneType"]

\* MakeTable that builds the table whatever the switch says, empty when off.
MakeTableEmptyWhenOff(selected_data, on) ==
    [type |-> "DataTable", id |-> "table",
     columns |-> IF on
                 THEN [k \in 1..Len(selected_data.columns) |->
                          [name |-> selected_data.columns[k],
                           id |-> selected_data.columns[k],
                           type |-> "numeric", precision |-> "3"]]
                 ELSE <<>>,
     data |-> IF on THEN selected_data.rows ELSE <<>>]

\* table: a DataTable of the slice when the switch is on, else None.
MakeTable(selected_data, on) ==
    IF on
    THEN [type |-> "DataTable", id |-> "table",
          columns |-> [k \in 1..Len(selected_data.columns) |->
                          [name |-> selected_data.columns[k],
                           id |-> selected_data.columns[k],
                           type |-> "numeric", precision |-> "3"]],
          data |-> selected_data.rows]
    ELSE NoneValue

Built(title_text, fig) == Ok([title_text |-> title_text, fig |-> fig])

\* title_text as each branch first sets it.
TitleText(figure, quantile, selected_country) ==
    CASE figure = "fig1" ->
            "Figure 1: Inflation rate for top and bottom " \o quantile
            \o " - " \o country_dict[selected_country]
      [] figure = "fig2" ->
            "Figure 2: Expenditure categories driving inflation inequality - "
            \o country_dict[selected_country]
      [] figure = "fig3" ->
            "Figure 3: Price growth and difference in importance of consumption categories - "
            \o country_dict[selected_country]

\* go.Scatter over df[['Date', label]].melt(id_vars='Date').
ReferenceTrace(selected_data, label, line, hovertemplate) ==
    With(Melt(selected_data, <<label>>), LAMBDA melted :
        Trace("scatter", Unset, label, Column(melted, "Date"),
              Column(melted, "value"), line, hovertemplate))

\* The fig1 branch: selecting a label that is no column raises KeyError.
BuildFig1(selected_data, quantile, selected_country) ==
    With(selected_data, LAMBDA sd :
    LET top == "Top " \o quantile
        bottom == "Bottom " \o quantile
        title_text == TitleText("fig1", quantile, selected_country)
    IN  IF ~HasColumns(sd, <<"Date", top, bottom>>) THEN Raise("KeyError")
        ELSE IF ~HasColumns(sd, <<"Date", "Total">>) THEN Raise("KeyError")
        ELSE IF ~HasColumns(sd, <<"Date", "HICP">>) THEN Raise("KeyError")
        ELSE Built(title_text,
            [data |->
                UpdateTraces(
                    PxTraces(Melt(sd, <<top, bottom>>), "scatter", "lines",
                             "Date", "value", "variable"),
                    "<b>%{customdata[1]}</b><br>Date: %{x}<br>Inflation rate: %{y:.2f}<extra></extra>",
                    "2.5")
                \o <<ReferenceTrace(sd, "Total", Line("#696969", "2", "dash"),
                        "<b>Total</b><br>Date: %{x}<br>Inflation rate: %{y:.2f}<extra></extra>"),
                     ReferenceTrace(sd, "HICP", Line("#A9A9A9", "2", "dot"),
                        "<b>HICP</b><br>Date: %{x}<br>Inflation rate: %{y:.2f}<extra></extra>")>>,
             xaxis |-> Axis(None, "M3", "%b\n%Y", NoZeroLine),
             yaxis |-> Axis("Inflation rate (yoy)", Unset, Unset, NoZeroLine),
             layout |-> PxLayout]))

Fig2Difference == "Difference between inflation rates of bottom and top quantiles"

\* The fig2 branch: px.bar raises ValueError for a column name the frame lacks.
BuildFig2(selected_data, quantile, selected_country) ==
    With(selected_data, LAMBDA sd :
    LET title_text == TitleText("fig2", quantile, selected_country)
        overlay == Trace("scatter", Unset,
            "Difference between inflation rates<br>of bottom and top " \o quantile \o "s",
            Column(sd, "Date"), Column(sd, Fig2Difference),
            Line("#000000", Unset, Unset),
            IF quantile = "quintile"
            THEN "<b>Difference between inflation rates of bottom and top quintiles</b><br>%{x}: %{y:.2f}<extra></extra>"
            ELSE "<b>Difference between inflation rates of bottom and top quartiles</b><br>%{x}: %{y:.2f}<extra></extra>")
    IN  IF ~HasColumns(sd, <<"Date", "Effect on inflation inequality",
                             "Consumption category">>)
        THEN Raise("ValueError")
        ELSE IF ~HasColumns(sd, <<Fig2Difference>>) THEN Raise("KeyError")
        ELSE Built(title_text,
            [data |->
                UpdateTraces(
                    PxTraces(sd, "bar", Unset, "Date",
                             "Effect on inflation inequality", "Consumption category"),
                    "<b>%{customdata[1]}</b><br>Date: %{x}<br>Effect on inflation inequality: %{y:.2f}<extra></extra>",
                    Unset)
                \o (IF quantile \in {"quintile", "quartile"} THEN <<overlay>> ELSE <<>>),
             xaxis |-> Axis(None, "M3", "%b\n%Y", NoZeroLine),
             yaxis |-> Axis(None, Unset, Unset, NoZeroLine),
             layout |-> PxLayout]))

\* The fig3 branch.
BuildFig3(selected_data, quantile, selected_country) ==
    With(selected_data, LAMBDA sd :
    LET title_text == TitleText("fig3", quantile, selected_country)
        x == "Difference in share of total expenditure"
        y == "Average inflation in 2023"
    IN  IF ~HasColumns(sd, <<x, y, "Main category">>) THEN Raise("ValueError")
        ELSE Built(title_text,
            [data |->
                UpdateTraces(
                    PxTraces(sd, "scatter", "markers", x, y, "Main category"),
                    "<b>%{customdata[1]}</b><br>Difference in consumption share: %{x:.2f}<br>Average inflation in 2023: %{y:.2f}<extra></extra>",
                    "2.5"),
             xaxis |-> Axis(x, Unset, Unset, ZeroLine),
             yaxis |-> Axis(y, Unset, Unset, ZeroLine),
             layout |-> PxLayout]))

\* if / elif / elif over selected_figure.
BuildFigure(figure, selected_data, quantile, selected_country) ==
    CASE figure = "fig1" -> BuildFig1(selected_data, quantile, selected_country)
      [] figure = "fig2" -> BuildFig2(selected_data, quantile, selected_country)
      [] figure = "fig3" -> BuildFig3(selected_data, quantile, selected_country)

\* Where the letter goes: title_text[:8] + fig_letter + title_text[8:].
TitleOffset == 8
\* ord('a'), the base of chr(97 + i).
LetterBase == 97

\* LetterTitle with the slices off by one: the letter lands before the digit.
LetterTitleBeforeDigit(title_text, i, n) ==
    IF n > 1
    THEN SliceTo(title_text, TitleOffset - 1) \o chr(LetterBase + i)
         \o SliceFrom(title_text, TitleOffset - 1)
    ELSE title_text

\* The title of the block of the i-th country (i from 0) out of n selected.
LetterTitle(title_text, i, n) ==
    IF n > 1
    THEN LET fig_letter == chr(LetterBase + i)
         IN  SliceTo(title_text, TitleOffset) \o fig_letter
             \o SliceFrom(title_text, TitleOffset)
    ELSE title_text

\* fig.update_layout(...) common to the three figures; update_layout merges
\* into what is there, so a property it does not name keeps its value.
CommonLayout(fig, legend_on) ==
    [fig EXCEPT !.layout.dragmode = "False",
                !.layout.font_family = font_family,
                !.layout.font_color = "#000000",
                !.layout.margin = [t |-> "20", b |-> "20", l |-> "5", r |-> "40"],
                !.layout.legend.itemsizing = "trace",
                !.layout.legend_title_text = None,
                !.layout.showlegend = legend_on]

\* MobileLayout without the test on the figure: fig3 gets the wider ticks too.
MobileLayoutEveryFigure(fig, figure) ==
    [fig EXCEPT !.layout.margin.l = "0",
                !.layout.margin.r = "0",
                !.layout.legend.itemsizing = "trace",
                !.layout.legend.orientation = "h",
                !.layout.legend.yanchor = "top",
                !.layout.legend.y = "-0.15",
                !.layout.legend.xanchor = "center",
                !.layout.legend.x = "0.5",
                !.xaxis.dtick = "M6"]

\* The layout options for mobile devices.
MobileLayout(fig, figure) ==
    LET narrow == [fig EXCEPT !.layout.margin.l = "0",
                              !.layout.margin.r = "0",
                              !.layout.legend.itemsizing = "trace",
                              !.layout.legend.orientation = "h",
                              !.layout.legend.yanchor = "top",
                              !.layout.legend.y = "-0.25",
                              !.layout.legend.xanchor = "center",
                              !.layout.legend.x = "0.5"]
    IN  IF figure # "fig3"
        THEN [narrow EXCEPT !.xaxis.dtick = "M6", !.layout.legend.y = "-0.15"]
        ELSE narrow

\* One pass of the loop: the three components the pass adds to figures, or
\* the exception that ends the call.
LoopBody(data, countries, i, figure, table_on, legend_on, mobile) ==
    With(countries[i + 1], LAMBDA selected_country :
    With(SelectedData(data, figure, selected_country), LAMBDA sliced :
        IF sliced.err # NoError THEN Raise(sliced.err)
        ELSE
    With(Quantile(selected_country), LAMBDA quantile :
    With(MakeTable(sliced.val, table_on), LAMBDA table :
    With(BuildFigure(figure, sliced.val, quantile, selected_country), LAMBDA built :
        IF built.err # NoError THEN Raise(built.err)
        ELSE
    With(LetterTitle(built.val.title_text, i, Len(countries)), LAMBDA title_text :
    With(CommonLayout(built.val.fig, legend_on), LAMBDA laid :
    With(IF mobile THEN MobileLayout(laid, figure) ELSE laid, LAMBDA fig :
        Ok(<<[type |-> "H3", children |-> title_text],
             [type |-> "Graph", id |-> "figure-" \o selected_country,
              figure |-> fig],
             table>>)))))))))

\* for i, selected_country in enumerate(selected_countries): figures after the
\* passes from i on, or the first exception.
RECURSIVE Loop(_, _, _, _, _, _, _, _)
Loop(figures, data, countries, i, figure, table_on, legend_on, mobile) ==
    IF i >= Len(countries) THEN Ok(figures)
    ELSE With(LoopBody(data, countries, i, figure, table_on, legend_on, mobile),
              LAMBDA pass :
                IF pass.err # NoError THEN Raise(pass.err)
                ELSE With(figures \o pass.val, LAMBDA extended :
                        Loop(extended, data, countries, i + 1, figure,
                             table_on, legend_on, mobile)))

\* if isinstance(selected_countries, str): selected_countries = [selected_countries]
AsList(countries) ==
    IF countries.kind = "str" THEN <<countries.val>> ELSE countries.val

\* Return with the note put before the blocks.
ReturnNoteFirst(figures, figure) ==
    IF figure \notin DOMAIN figure_descriptions THEN Raise("KeyError")
    ELSE Ok(<<[type |-> "Div", children |-> figure_descriptions[figure]]>>
            \o figures)

\* return figures + [html.Div([html.P(figure_descriptions[selected_figure])])]
Return(figures, figure) ==
    IF figure \notin DOMAIN figure_descriptions THEN Raise("KeyError")
    ELSE Ok(figures \o <<[type |-> "Div",
                          children |-> figure_descriptions[figure]]>>)

\* The callback, start to end.
update_selected_data(data, countries, figure, table_on, legend_on, mobile) ==
    With(AsList(countries), LAMBDA list :
    With(Loop(<<>>, data, list, 0, figure, table_on, legend_on, mobile),
         LAMBDA looped :
            IF looped.err # NoError THEN Raise(looped.err)
            ELSE Return(looped.val, figure)))

(***************************************************************************)
(* The page: the components' properties, and Dash calling the callback     *)
(* with the current value of all five inputs whenever one of them changes. *)
(* A call that raises returns nothing.                                     *)
(***************************************************************************)
\* Countries the model lets the user combine in any order.
SampleCountries == {"AT", "BE", "DE"}

IsPrefix(s, t) == Len(s) <= Len(t) /\ SubSeq(t, 1, Len(s)) = s

RemoveAt(s, k) == SubSeq(s, 1, k - 1) \o SubSeq(s, k + 1, Len(s))

AsValue(list) == [kind |-> "list", val |-> list]

\* Dash calls update_selected_data and sets the output to what it returns.
Fire(countries, figure, table_on, legend_on, mobile) ==
    \E result \in {update_selected_data(dfs, countries, figure, table_on,
                                        legend_on, mobile)} :
        /\ selected_countries' = countries
        /\ selected_figure' = figure
        /\ show_table' = table_on
        /\ show_legend' = legend_on
        /\ is_mobile' = mobile
        /\ callback_error' = result.err
        /\ children' = IF result.err = NoError THEN result.val ELSE <<>>
        /\ UNCHANGED workbook

\* The layout's defaults: value='AT', value='fig1', on=False, on=True,
\* data=False; Dash calls the callback once when the page loads.
Init ==
    /\ workbook \in Defects
    /\ selected_countries = [kind |-> "str", val |-> "AT"]
    /\ selected_figure = "fig1"
    /\ show_table = FALSE
    /\ show_legend = TRUE
    /\ is_mobile = FALSE
    /\ \E result \in {update_selected_data(dfs, selected_countries, selected_figure,
                                           show_table, show_legend, is_mobile)} :
        /\ callback_error = result.err
        /\ children = IF result.err = NoError THEN result.val ELSE <<>>

\* The user picks one more country in the multi dropdown; it goes last.
\* The model follows three kinds of selection: one country, up to MaxFree of
\* the SampleCountries in any order, and, with an intact workbook, the
\* countries picked in the order the dropdown lists them, up to all of them.
AddCountry(c) ==
    LET list == AsList(selected_countries)
    IN  /\ c \notin Range(list)
        /\ \/ list = <<>>
           \/ /\ Len(list) < MaxFree
              /\ Range(list) \cup {c} \subseteq SampleCountries
           \/ /\ workbook = NoDefect
              /\ IsPrefix(list, country_codes)
              /\ Len(list) < Len(country_codes)
              /\ c = country_codes[Len(list) + 1]
        /\ Fire(AsValue(Append(list, c)), selected_figure, show_table,
                show_legend, is_mobile)

\* The user removes the k-th selected country.
RemoveCountry(k) ==
    LET list == AsList(selected_countries)
    IN  /\ k \in 1..Len(list)
        /\ Len(list) <= MaxFree \/ k = Len(list)
        /\ Fire(AsValue(RemoveAt(list, k)), selected_figure, show_table,
                show_legend, is_mobile)

\* The user picks a figure, or clears the figure dropdown (value None).
SelectFigure(f) ==
    /\ f # selected_figure
    /\ Fire(selected_countries, f, show_table, show_legend, is_mobile)

ToggleTable ==
    /\ show_table \in BOOLEAN
    /\ Fire(selected_countries, selected_figure, ~show_table, show_legend, is_mobile)

ToggleLegend ==
    /\ show_legend \in BOOLEAN
    /\ Fire(selected_countries, selected_figure, show_table, ~show_legend, is_mobile)

\* The clientside callback stores window.innerWidth < 700.
UpdateIsMobile ==
    /\ is_mobile \in BOOLEAN
    /\ Fire(selected_countries, selected_figure, show_table, show_legend, ~is_mobile)

Next ==
    \/ \E c \in Countries : AddCountry(c)
    \/ \E k \in 1..Len(country_codes) : RemoveCountry(k)
    \/ \E f \in Figures \cup {None} : SelectFigure(f)
    \/ ToggleTable
    \/ ToggleLegend
    \/ UpdateIsMobile

Spec == Init /\ [][Next]_vars

(***************************************************************************)
(* What a call returned, read back block by block: the k-th country's      *)
(* heading, graph and table are at 3k-2, 3k-1 and 3k of children.          *)
(***************************************************************************)
Returned == callback_error = NoError
Selection == AsList(selected_countries)
HeadingOf(out, k) == out[3 * k - 2]
GraphOf(out, k) == out[3 * k - 1]
TableOf(out, k) == out[3 * k]

Alphabet == <<"a", "b", "c", "d", "e", "f", "g", "h", "i", "j", "k", "l", "m",
              "n", "o", "p", "q", "r", "s", "t", "u", "v", "w", "x", "y", "z">>

FigureToken == [f \in Figures |->
    CASE f = "fig1" -> "Figure 1" [] f = "fig2" -> "Figure 2" [] f = "fig3" -> "Figure 3"]

\* The title has the one character ch right after the figure-number token,
\* and is the canonical title once that character is taken out.
Lettered(title, canonical, token, ch) ==
    /\ Len(title) = Len(canonical) + 1
    /\ SubSeq(title, 1, Len(token)) = token
    /\ SubSeq(title, Len(token) + 1, Len(token) + 1) = ch
    /\ SubSeq(title, Len(token) + 2, Len(token) + 2) = ":"
    /\ SubSeq(title, 1, Len(token)) \o SubSeq(title, Len(token) + 2, Len(title))
       = canonical

RowsOf(country) == LocCountry(dfs[selected_figure], country).rows

\* The workbook's rows for the country are as the callback expects them.
Intact(country) == workbook.country # country

\* C2: whenever a figure is selected and the workbook's rows of a selected
\* country Y are intact, what the call returns has Y's block (heading, graph
\* 'figure-Y', table or None), whatever else is selected before or after Y.
C2_Isolation ==
    selected_figure \in Figures =>
        \A k \in 1..Len(Selection) :
            Intact(Selection[k]) =>
                \E j \in 1..Len(children) :
                    /\ children[j].type = "Graph"
                    /\ children[j].id = "figure-" \o Selection[k]

\* A returned title without the letter that more than one country adds.
Unlettered(title) ==
    IF Len(Selection) > 1
    THEN SubSeq(title, 1, 8) \o SubSeq(title, 10, Len(title))
    ELSE title

\* The label the claim gives each country code.
LabelOf(country) == IF country = "BE" THEN "quartile" ELSE "quintile"

TraceNames(graph) == {graph.figure.data[t].name : t \in 1..Len(graph.figure.data)}

\* C3: the label is quartile for BE and quintile for each of the other 26
\* codes; a fig1 block's canonical title names that label and its two group
\* lines are the columns 'Top <label>' and 'Bottom <label>' (values and all);
\* a fig2 block's overlay is named with that label; and with an intact
\* workbook no country's build fails over the label.
C3_QuantileLabel ==
    /\ Cardinality(Countries) = 27
    /\ workbook = NoDefect /\ selected_figure \in Figures => Returned
    /\ Returned =>
        \A k \in 1..Len(Selection) :
            LET country == Selection[k]
                label == LabelOf(country)
                graph == GraphOf(children, k)
                data == graph.figure.data
                title == HeadingOf(children, k).children
                prefix == "Figure 1: Inflation rate for top and bottom " \o label \o " - "
            IN  /\ selected_figure = "fig1" =>
                    /\ SubSeq(Unlettered(title), 1, Len(prefix)) = prefix
                    /\ TraceNames(graph) \subseteq
                         {"Top " \o label, "Bottom " \o label, "Total", "HICP"}
                    /\ RowsOf(country) # <<>> =>
                         /\ data[1].name = "Top " \o label
                         /\ data[2].name = "Bottom " \o label
                         /\ data[1].y = Column([rows |-> RowsOf(country)], "Top " \o label)
                         /\ data[2].y = Column([rows |-> RowsOf(country)], "Bottom " \o label)
                /\ selected_figure = "fig2" =>
                    data[Len(data)].name =
                        "Difference between inflation rates<br>of bottom and top "
                        \o label \o "s"

\* C3 witness: Belgium after Austria in fig1, Belgium's lines named for the quartile.
C3_Witness ==
    /\ Returned
    /\ selected_figure = "fig1"
    /\ Selection = <<"AT", "BE">>
    /\ GraphOf(children, 1).figure.data[1].name = "Top quintile"
    /\ GraphOf(children, 2).figure.data[1].name = "Top quartile"

\* C4: what a call returns is one block per selected country, in the order
\* selected (heading, graph 'figure-<code>', table or None), then one Div with
\* the note of the selected figure, and nothing else.
C4_BlocksThenNote ==
    Returned =>
        /\ Len(children) = 3 * Len(Selection) + 1
        /\ \A k \in 1..Len(Selection) :
            /\ HeadingOf(children, k).type = "H3"
            /\ GraphOf(children, k).type = "Graph"
            /\ GraphOf(children, k).id = "figure-" \o Selection[k]
            /\ TableOf(children, k).type \in {"DataTable", "NoneType"}
        /\ children[Len(children)] =
             [type |-> "Div", children |-> figure_descriptions[selected_figure]]
        /\ \A j \in 1..(Len(children) - 1) : children[j].type # "Div"

\* C4 witness: three countries, three blocks in their order, the note tenth.
C4_Witness ==
    /\ Returned
    /\ Selection = <<"AT", "BE", "BG">>
    /\ Len(children) = 10
    /\ GraphOf(children, 3).id = "figure-BG"
    /\ children[10].type = "Div"

TableColumns(table) == {table.columns[c].id : c \in 1..Len(table.columns)}

\* C5: in what a fig3 call returns with the table switch on, no country's
\* table has the COICOP column or the average inflation of 2019 to 2022, in
\* its columns or in its rows, and it still has 'Average inflation in 2023',
\* the column whose values the points of that country's chart have as y.
C5_Fig3Table ==
    Returned /\ selected_figure = "fig3" /\ show_table =>
        \A k \in 1..Len(Selection) :
            LET table == TableOf(children, k)
                graph == GraphOf(children, k)
                y == "Average inflation in 2023"
            IN  /\ table.type = "DataTable"
                /\ TableColumns(table) \cap
                     {"COICOP", "Average inflation in 2019", "Average inflation in 2020",
                      "Average inflation in 2021", "Average inflation in 2022"} = {}
                /\ \A r \in 1..Len(table.data) : DOMAIN table.data[r] = TableColumns(table)
                /\ y \in TableColumns(table)
                /\ graph.figure.yaxis.title_text = y
                /\ \A t \in 1..Len(graph.figure.data) :
                     Range(graph.figure.data[t].y) \subseteq
                        {table.data[r][y] : r \in 1..Len(table.data)}

\* C5 witness: fig3 with tables for Belgium and Germany, points drawn.
C5_Witness ==
    /\ Returned
    /\ selected_figure = "fig3"
    /\ show_table
    /\ Selection = <<"BE", "DE">>
    /\ Len(TableOf(children, 2).data) = RowsPerCountry
    /\ Len(GraphOf(children, 2).figure.data) > 0

\* The months between ticks of a dtick "M<n>".
TickMonths(dtick) ==
    CASE dtick = "M1" -> 1 [] dtick = "M3" -> 3 [] dtick = "M6" -> 6
      [] dtick = "M12" -> 12

\* What the claim says of a mobile and a desktop answer to one request.
MobileVersusDesktop(mobile, desktop, figure, n) ==
    /\ Len(mobile) = Len(desktop)
    /\ \A k \in 1..n :
        LET m == GraphOf(mobile, k).figure
            d == GraphOf(desktop, k).figure
        IN  /\ m.layout.legend.orientation = "h"
            /\ m.layout.legend.yanchor = "top"
            /\ m.layout.legend.y \in {"-0.25", "-0.15"}
            /\ d.layout.legend.orientation = Unset
            /\ figure \in {"fig1", "fig2"} =>
                TickMonths(m.xaxis.dtick) > TickMonths(d.xaxis.dtick)
            /\ figure \in {"fig1", "fig2"} =>
                m.xaxis.dtick = "M6" /\ d.xaxis.dtick = "M3"
            /\ figure = "fig3" => m.xaxis = d.xaxis /\ m.yaxis = d.yaxis

OnlyDeviceChanges ==
    /\ is_mobile' # is_mobile
    /\ UNCHANGED <<selected_countries, selected_figure, show_table, show_legend,
                   workbook>>
    /\ Returned
    /\ Returned'

\* C6: when only the device class of the request changes, each chart of the
\* mobile answer has a horizontal legend anchored by its top below the plot
\* where the desktop chart leaves the orientation to the default; in fig1 and
\* fig2 the mobile x ticks are six months apart and the desktop ones three;
\* in fig3 both axes are the same on mobile and desktop.
C6_MobileLayout ==
    [][OnlyDeviceChanges =>
        IF is_mobile'
        THEN MobileVersusDesktop(children', children, selected_figure,
                                 Len(Selection))
        ELSE MobileVersusDesktop(children, children', selected_figure,
                                 Len(Selection))]_vars

\* C6 witness: a mobile answer for two countries in fig3, legend laid flat.
C6_Witness ==
    /\ Returned
    /\ is_mobile
    /\ selected_figure = "fig3"
    /\ Len(Selection) = 2
    /\ GraphOf(children, 2).figure.layout.legend.orientation = "h"

OnlyTableChanges ==
    /\ show_table' # show_table
    /\ UNCHANGED <<selected_countries, selected_figure, show_legend, is_mobile,
                   workbook>>
    /\ Returned
    /\ Returned'

\* All the cells of a table.
Cells(table) ==
    UNION {{table.data[r][c] : c \in DOMAIN table.data[r]} : r \in 1..Len(table.data)}

\* The table is made of the slice the callback cuts for the country.
OfSlice(table, country) ==
    LET slice == SelectedData(dfs, selected_figure, country).val
    IN  /\ [c \in 1..Len(table.columns) |-> table.columns[c].id] = slice.columns
        /\ table.data = slice.rows

\* C7: when only the table switch of the request changes, every heading and
\* every graph of the answer stays as it was; with the switch off the third
\* component of each block is None, no table; with it on it is a table of
\* the country's slice, whose cells include every y value of the chart.
C7_TableSwitch ==
    [][OnlyTableChanges =>
        /\ Len(children') = Len(children)
        /\ \A k \in 1..Len(Selection) :
            /\ HeadingOf(children', k) = HeadingOf(children, k)
            /\ GraphOf(children', k) = GraphOf(children, k)
            /\ ~show_table' => TableOf(children', k) = NoneValue
            /\ show_table' =>
                /\ TableOf(children', k).type = "DataTable"
                /\ OfSlice(TableOf(children', k), Selection[k])
                /\ \A t \in 1..Len(GraphOf(children', k).figure.data) :
                     Range(GraphOf(children', k).figure.data[t].y)
                        \subseteq Cells(TableOf(children', k))]_vars

\* C7 witness: tables on for two countries, each block with its table.
C7_Witness ==
    /\ Returned
    /\ show_table
    /\ selected_figure = "fig1"
    /\ Selection = <<"BE", "AT">>
    /\ TableOf(children, 1).type = "DataTable"
    /\ "Top quartile" \in TableColumns(TableOf(children, 1))
    /\ "Top quintile" \in TableColumns(TableOf(children, 2))

\* C8: a call that returns has at least one country to show, a lone string
\* being taken as the one country selected, and what it returns has at least
\* one country's block before the note.
C8_NeverBlank ==
    Returned =>
        /\ Len(Selection) >= 1
        /\ Len(children) > 1
        /\ selected_countries.kind = "str" =>
            /\ Len(children) = 4
            /\ GraphOf(children, 1).id = "figure-" \o selected_countries.val

\* The slice of the country lacks a column fig1 reads for the country's label.
LabelColumnMissing(country) ==
    /\ selected_figure = "fig1"
    /\ ~({"Top " \o LabelOf(country), "Bottom " \o LabelOf(country)} \subseteq
         ColumnSet(GenericSlice(dfs[selected_figure], country)))

\* C9: with a figure selected, a call does not return when the workbook has
\* no row for one of the selected countries, or when that country's slice
\* lacks a column of its quantile label.
C9_BuildFails ==
    selected_figure \in Figures =>
        \A k \in 1..Len(Selection) :
            (RowsOf(Selection[k]) = <<>> \/ LabelColumnMissing(Selection[k]))
                => ~Returned

\* C10: with a figure selected, the slice cut for a selected country keeps
\* each column other than Country that has a present value in one of the
\* country's rows, and drops each column that has none.
C10_PruneAllAbsent ==
    selected_figure \in Figures =>
        \A k \in 1..Len(Selection) :
            LET sheet == dfs[selected_figure]
                rows == RowsOf(Selection[k])
                slice == GenericSlice(sheet, Selection[k])
            IN  \A col \in ColumnSet(sheet) \ {"Country"} :
                    /\ (\E r \in 1..Len(rows) : rows[r][col] # NaN)
                          => col \in ColumnSet(slice)
                    /\ (rows # <<>> /\ \A r \in 1..Len(rows) : rows[r][col] = NaN)
                          => col \notin ColumnSet(slice)

\* The character the k-th block's title carries right after "Figure N".
InsertedOf(out, k) ==
    SubSeq(HeadingOf(out, k).children, TitleOffset + 1, TitleOffset + 1)

Lowercase == Range(Alphabet)

\* C11: in what a call returns for more than one selected country, any
\* number of the 27 codes up to all of them, the character inserted into
\* each block's title is one of the lowercase letters a..z, and the
\* characters inserted into two different blocks differ.
C11_LowercaseDistinct ==
    (Returned /\ Len(Selection) > 1) =>
        /\ \A k \in 1..Len(Selection) : InsertedOf(children, k) \in Lowercase
        /\ \A j, k \in 1..Len(Selection) :
              j # k => InsertedOf(children, j) # InsertedOf(children, k)

\* The components of what a call returned that carry an id.
Identified(out) == {i \in 1..Len(out) : "id" \in DOMAIN out[i]}

\* C12: in what a call returns, the k-th country's graph has the id
\* "figure-" followed by its country code, and no two of the returned
\* components that carry an id, graphs and tables alike, carry the same one.
C12_DistinctIds ==
    Returned =>
        /\ \A k \in 1..Len(Selection) :
              GraphOf(children, k).id = "figure-" \o Selection[k]
        /\ \A i, j \in Identified(children) :
              i # j => children[i].id # children[j].id

====
